---- MODULE Spec2Model ----
(***************************************************************************)
(* A model of reddit_population.py: the per-document aggregation loop of   *)
(* main(), the format classifier detect_format, the id accumulator         *)
(* accumulate_ids, the timestamp sort and date-range selection, and the    *)
(* reporting of fatal failures.                                            *)
(*                                                                         *)
(* Python values are tagged records: [k |-> "none"], [k |-> "bool", v],    *)
(* [k |-> "num", v], [k |-> "str", v] (v a sequence of one-character       *)
(* strings), [k |-> "list", v] (v a sequence of values) and                *)
(* [k |-> "dict", v] (v a function from keys to values).  A call of an     *)
(* external function (ut.timestamp, ...) yields a value or [k |-> "raise"].*)
(***************************************************************************)
EXTENDS Integers, Sequences, FiniteSets

VARIABLES pc, failure, out, doc_count, timestamp_list, format_list,
          landing_pages, landing_pages2, ids, impressions,
          v_ct, i_ct, t_ct, imp_ct, start_date, last_date, written, pulled

vars == <<pc, failure, out, doc_count, timestamp_list, format_list,
          landing_pages, landing_pages2, ids, impressions,
          v_ct, i_ct, t_ct, imp_ct, start_date, last_date, written, pulled>>

----------------------------------------------------------------------------
(* Python values *)

None == [k |-> "none"]
Bool(b) == [k |-> "bool", v |-> b]
Num(n) == [k |-> "num", v |-> n]
Str(s) == [k |-> "str", v |-> s]
List(l) == [k |-> "list", v |-> l]
Dict(f) == [k |-> "dict", v |-> f]
Raise == [k |-> "raise"]

(* bool(value): Python truthiness, as used by `or`, `if x:` *)
Truthy(val) ==
    CASE val.k = "none" -> FALSE
      [] val.k = "bool" -> val.v
      [] val.k = "num"  -> val.v /= 0
      [] val.k = "str"  -> Len(val.v) > 0
      [] val.k = "list" -> Len(val.v) > 0
      [] val.k = "dict" -> DOMAIN val.v /= {}

(* a or b *)
Or(a, b) == IF Truthy(a) THEN a ELSE b

(* d.get(key, default) on a dict *)
DictGet(d, key, default) == IF key \in DOMAIN d.v THEN d.v[key] ELSE default

EmptyDict == Dict(<<>>)
EmptyStr == Str(<<>>)

----------------------------------------------------------------------------
(* safe_source and detect_format *)

(* hit.get("_source", {}) or {} *)
safe_source(hit) == Or(DictGet(hit, "_source", EmptyDict), EmptyDict)

(* The compiled pattern ^https?://i\.redd\.it : a sequence of literal      *)
(* characters, the "s" being optional.                                     *)
Lit(c) == [c |-> c, opt |-> FALSE]
Opt(c) == [c |-> c, opt |-> TRUE]
ImagePattern ==
    <<Lit("h"), Lit("t"), Lit("t"), Lit("p"), Opt("s"), Lit(":"), Lit("/"),
      Lit("/"), Lit("i"), Lit("."), Lit("r"), Lit("e"), Lit("d"), Lit("d"),
      Lit("."), Lit("i"), Lit("t")>>

(* Backtracking match of pat[i..] against s[j..]. *)
RECURSIVE MatchHere(_, _, _, _)
MatchHere(pat, i, s, j) ==
    IF i > Len(pat) THEN TRUE
    ELSE LET take == j <= Len(s) /\ s[j] = pat[i].c /\ MatchHere(pat, i + 1, s, j + 1)
         IN  IF pat[i].opt THEN take \/ MatchHere(pat, i + 1, s, j) ELSE take

(* re.match(pattern, url): anchored at the start of the string; a          *)
(* non-string argument raises TypeError.                                   *)
re_match(pat, url) ==
    IF url.k /= "str" THEN "TypeError"
    ELSE IF MatchHere(pat, 1, url.v, 1) THEN "match" ELSE "nomatch"

(* A variant that tests the image signals before is_video *)
detect_format_image_first(hit) ==
    LET src == safe_source(hit) IN
    IF src.k /= "dict" THEN "AttributeError"
    ELSE LET url == Or(DictGet(src, "url", EmptyStr), EmptyStr)
             m == re_match(ImagePattern, url)
         IN  IF m = "TypeError" THEN "TypeError"
             ELSE IF m = "match" \/ Truthy(DictGet(src, "is_gallery", None))
                  THEN "image"
             ELSE IF Truthy(DictGet(src, "is_video", None)) THEN "video"
             ELSE "text"

(* detect_format(hit): "video", "image" or "text", or the exception the    *)
(* call raises: src.get on a non-mapping is an AttributeError, re.match on *)
(* a non-string a TypeError.                                               *)
detect_format(hit) ==
    LET src == safe_source(hit) IN
    IF src.k /= "dict" THEN "AttributeError"
    ELSE IF Truthy(DictGet(src, "is_video", None)) THEN "video"
    ELSE LET url == Or(DictGet(src, "url", EmptyStr), EmptyStr)
             m == re_match(ImagePattern, url)
         IN  IF m = "TypeError" THEN "TypeError"
             ELSE IF m = "match" \/ Truthy(DictGet(src, "is_gallery", None))
                  THEN "image"
             ELSE "text"

Formats == {"video", "image", "text"}

----------------------------------------------------------------------------
(* accumulate_ids and the landing-page accumulation *)

(* ids_list.extend(value) / ids_list.append(value) *)
Extend(lst, value) == lst \o value.v

(* A variant that tests `if not value` instead of `if value is None` *)
accumulate_ids_truthy(ids_list, value) ==
    IF ~Truthy(value) THEN ids_list
    ELSE IF value.k = "list" THEN Extend(ids_list, value)
    ELSE Append(ids_list, value)

(* accumulate_ids(ids_list, value): the list after the call *)
accumulate_ids(ids_list, value) ==
    IF value = None THEN ids_list
    ELSE IF value.k = "list" THEN Extend(ids_list, value)
    ELSE Append(ids_list, value)

(* A variant that tests `is not None` instead of truthiness *)
landing_entries_not_none(entries, doc_id, filtered_urls) ==
    IF filtered_urls /= None THEN Append(entries, <<doc_id, filtered_urls>>)
    ELSE entries

(* landing_pages after `if filtered_urls: landing_pages.append(...)` *)
landing_entries(entries, doc_id, filtered_urls) ==
    IF Truthy(filtered_urls) THEN Append(entries, <<doc_id, filtered_urls>>)
    ELSE entries

(* landing_pages2 after the extend-or-append under `if filtered_urls:` *)
landing_flat(flat, filtered_urls) ==
    IF Truthy(filtered_urls)
    THEN IF filtered_urls.k = "list" THEN Extend(flat, filtered_urls)
         ELSE Append(flat, filtered_urls)
    ELSE flat

----------------------------------------------------------------------------
(* float(imp_val) and the impressions total *)

Digits == <<"0", "1", "2", "3", "4", "5", "6", "7", "8", "9">>
IsDigit(c) == \E d \in DOMAIN Digits : Digits[d] = c
DigitVal(c) == (CHOOSE d \in DOMAIN Digits : Digits[d] = c) - 1

RECURSIVE StripLeft(_)
StripLeft(s) == IF s /= <<>> /\ Head(s) = " " THEN StripLeft(Tail(s)) ELSE s
RECURSIVE StripRight(_)
StripRight(s) ==
    IF s /= <<>> /\ s[Len(s)] = " " THEN StripRight(SubSeq(s, 1, Len(s) - 1)) ELSE s

RECURSIVE DigitsValue(_)
DigitsValue(s) ==
    IF s = <<>> THEN 0
    ELSE DigitsValue(SubSeq(s, 1, Len(s) - 1)) * 10 + DigitVal(s[Len(s)])

(* float() of a string, for the decimal integer literals: surrounding      *)
(* whitespace is stripped, one sign is allowed, then one or more digits.   *)
(* Anything else is a ValueError.                                          *)
ParseFloat(s) ==
    LET t == StripRight(StripLeft(s))
        signed == t /= <<>> /\ Head(t) \in {"+", "-"}
        body == IF signed THEN Tail(t) ELSE t
    IN  IF body = <<>> \/ \E p \in DOMAIN body : ~IsDigit(body[p])
        THEN [ok |-> FALSE, v |-> 0]
        ELSE [ok |-> TRUE,
              v |-> IF signed /\ Head(t) = "-" THEN 0 - DigitsValue(body)
                    ELSE DigitsValue(body)]

(* float(value): [ok |-> TRUE, v |-> the number] or ok = FALSE when the    *)
(* call raises (ValueError for a string, TypeError for None, a list, a     *)
(* dict).                                                                  *)
Float(val) ==
    CASE val.k = "num"  -> [ok |-> TRUE, v |-> val.v]
      [] val.k = "bool" -> [ok |-> TRUE, v |-> IF val.v THEN 1 ELSE 0]
      [] val.k = "str"  -> ParseFloat(val.v)
      [] OTHER          -> [ok |-> FALSE, v |-> 0]

(* A variant whose handler adds 1 without testing imp_val *)
add_impression_non_null(total, imp_val) ==
    IF imp_val = None THEN total
    ELSE IF Float(imp_val).ok THEN total + Float(imp_val).v
    ELSE total + 1

(* imp_ct after the try/except that aggregates one imp_val *)
add_impression(total, imp_val) ==
    IF imp_val = None THEN total
    ELSE IF Float(imp_val).ok THEN total + Float(imp_val).v
    ELSE IF Truthy(imp_val) THEN total + 1
    ELSE total

----------------------------------------------------------------------------
(* timestamp_list.sort(key=lambda x: (x[1] is None, x[1])) *)

(* a < b on two values: defined between numbers and between booleans;      *)
(* None orders against nothing (TypeError).                                *)
ValLt(a, b) ==
    IF a.k = "num" /\ b.k = "num" THEN (IF a.v < b.v THEN "true" ELSE "false")
    ELSE IF a.k = "bool" /\ b.k = "bool"
         THEN (IF ~a.v /\ b.v THEN "true" ELSE "false")
    ELSE "TypeError"

(* a < b on two tuples: the first position where they differ decides.      *)
RECURSIVE TupleLt(_, _)
TupleLt(a, b) ==
    IF a = <<>> \/ b = <<>> THEN (IF Len(a) < Len(b) THEN "true" ELSE "false")
    ELSE IF Head(a) = Head(b) THEN TupleLt(Tail(a), Tail(b))
    ELSE ValLt(Head(a), Head(b))

(* A variant that sorts by the timestamp alone *)
sort_key_ts_only(x) == <<x[2]>>

(* lambda x: (x[1] is None, x[1]) on an entry [doc_id, ts] *)
sort_key(x) == <<Bool(x[2] = None), x[2]>>

(* Insert x into the sorted s behind every element that is not greater     *)
(* (a stable insertion); err when a comparison raises.                     *)
RECURSIVE InsertSorted(_, _)
InsertSorted(s, x) ==
    IF s = <<>> THEN [err |-> FALSE, seq |-> <<x>>]
    ELSE LET last == s[Len(s)]
             c == TupleLt(sort_key(x), sort_key(last))
         IN  IF c = "TypeError" THEN [err |-> TRUE, seq |-> <<>>]
             ELSE IF c = "true"
                  THEN LET r == InsertSorted(SubSeq(s, 1, Len(s) - 1), x)
                       IN  [err |-> r.err,
                            seq |-> IF r.err THEN <<>> ELSE Append(r.seq, last)]
             ELSE [err |-> FALSE, seq |-> Append(s, x)]

(* list.sort: a stable sort by sort_key; err when a comparison raises.     *)
RECURSIVE Sorted(_)
Sorted(s) ==
    IF s = <<>> THEN [err |-> FALSE, seq |-> <<>>]
    ELSE LET r == Sorted(SubSeq(s, 1, Len(s) - 1))
         IN  IF r.err THEN r ELSE InsertSorted(r.seq, s[Len(s)])

(* [t for t in timestamp_list if t[1] is not None] *)
RECURSIVE NonNone(_)
NonNone(s) ==
    IF s = <<>> THEN <<>>
    ELSE IF Head(s)[2] /= None THEN <<Head(s)>> \o NonNone(Tail(s))
    ELSE NonNone(Tail(s))

NoDate == <<>>

pick_start_date(sorted) == IF sorted /= <<>> THEN sorted[1] ELSE NoDate

(* A variant that takes the last entry of the list, null or not *)
pick_last_date_overall(sorted) ==
    IF sorted /= <<>> THEN sorted[Len(sorted)] ELSE NoDate

(* last_date of lines 164-170; NoDate stands for Python's None *)
pick_last_date(sorted) ==
    IF sorted /= <<>>
    THEN LET non_none == NonNone(sorted)
         IN  IF non_none /= <<>> THEN non_none[Len(non_none)]
             ELSE sorted[Len(sorted)]
    ELSE NoDate

----------------------------------------------------------------------------
(* Records of the document source and the outcomes of the extractors *)

Absent == [k |-> "absent"]

(* A dict from a selection key -> value-or-Absent: absent keys are left out *)
MkDict(sel) == Dict([key \in {x \in DOMAIN sel : sel[x] /= Absent} |-> sel[key]])

(* One record of helpers.scan: {"_id": id, "_source": source} *)
MkHit(id, source) == MkDict([key \in {"_id", "_source"} |->
                                IF key = "_id" THEN id ELSE source])

(* A payload {"is_video": iv, "url": url, "is_gallery": ig} *)
MkSource(iv, url, ig) ==
    MkDict([key \in {"is_video", "url", "is_gallery"} |->
               IF key = "is_video" THEN iv ELSE IF key = "url" THEN url ELSE ig])

Extractors == {"timestamp", "landing_pages", "key_ids", "impressions"}

(* What the four ut.* calls do on one record: a value each, or Raise *)
Outcomes(ts, lp, kid, imp) ==
    [timestamp |-> ts, landing_pages |-> lp, key_ids |-> kid, impressions |-> imp]

(* A variant whose handler stores an empty string *)
Isolated_empty_string(outcome) == IF outcome = Raise THEN EmptyStr ELSE outcome

(* try: x = ut.f(hit)  except Exception: x = None *)
Isolated(outcome) == IF outcome = Raise THEN None ELSE outcome

(* VERBOSE = False: the per-document diagnostics are not printed *)
VERBOSE == FALSE

----------------------------------------------------------------------------
(* main() *)

Unset == <<"unset">>

Init ==
    /\ pc = "client"
    /\ failure = "none"
    /\ out = <<>>
    /\ doc_count = 0
    /\ timestamp_list = <<>>
    /\ format_list = <<>>
    /\ landing_pages = <<>>
    /\ landing_pages2 = <<>>
    /\ ids = <<>>
    /\ impressions = <<>>
    /\ v_ct = 0
    /\ i_ct = 0
    /\ t_ct = 0
    /\ imp_ct = 0
    /\ start_date = Unset
    /\ last_date = Unset
    /\ written = FALSE
    /\ pulled = <<>>

accumulators == <<doc_count, timestamp_list, format_list, landing_pages,
                  landing_pages2, ids, impressions, v_ct, i_ct, t_ct, imp_ct>>

(* Lines 48-56: Elasticsearch(...) returns, or raises and is reported *)
CreateClient ==
    /\ pc = "client"
    /\ \E raised \in BOOLEAN :
          IF raised
          THEN /\ out' = Append(out, "Error creating Elasticsearch client:")
               /\ failure' = "client"
               /\ pc' = "aborted"
          ELSE /\ pc' = "scan"
               /\ UNCHANGED <<out, failure>>
    /\ UNCHANGED <<accumulators, start_date, last_date, written, pulled>>

(* Lines 58-62: helpers.scan(...) returns the generator, or the call       *)
(* itself raises and is reported                                           *)
Scan ==
    /\ pc = "scan"
    /\ \E raised \in BOOLEAN :
          IF raised
          THEN /\ out' = Append(out, "Error scanning Elasticsearch index:")
               /\ failure' = "scan"
               /\ pc' = "aborted"
          ELSE /\ pc' = "loop"
               /\ UNCHANGED <<out, failure>>
    /\ UNCHANGED <<accumulators, start_date, last_date, written, pulled>>

(* Line 81: pulling the next record from the generator raises (the query   *)
(* runs on the first pull); no handler encloses the for statement          *)
PullRaises ==
    /\ pc = "loop"
    /\ failure' = IF doc_count = 0 THEN "first_pull" ELSE "pull"
    /\ pc' = "aborted"
    /\ UNCHANGED <<out, accumulators, start_date, last_date, written, pulled>>

(* Lines 81-157: one iteration of the loop on the record with payload      *)
(* source, the extractors behaving as ut says                              *)
ProcessRecord(source, ut, max) ==
    /\ pc = "loop"
    /\ doc_count < max
    /\ LET hit == MkHit(Num(doc_count + 1), source)
           doc_id == DictGet(hit, "_id", None)
           ts == Isolated(ut.timestamp)
           fmt == detect_format(hit)
           filtered_urls == Isolated(ut.landing_pages)
           key_ids_value == Isolated(ut.key_ids)
           imp_val == Isolated(ut.impressions)
       IN  /\ doc_count' = doc_count + 1
           /\ timestamp_list' = Append(timestamp_list, <<doc_id, ts>>)
           /\ IF fmt \notin Formats
              THEN /\ pc' = "aborted"
                   /\ failure' = "classify"
                   /\ pulled' = Append(pulled, [hit |-> hit, ut |-> ut,
                                                called |-> {"timestamp"}])
                   /\ UNCHANGED <<format_list, landing_pages, landing_pages2, ids,
                                  impressions, v_ct, i_ct, t_ct, imp_ct>>
              ELSE /\ format_list' = Append(format_list, <<doc_id, fmt>>)
                   /\ v_ct' = IF fmt = "video" THEN v_ct + 1 ELSE v_ct
                   /\ i_ct' = IF fmt /= "video" /\ fmt = "image" THEN i_ct + 1 ELSE i_ct
                   /\ t_ct' = IF fmt /= "video" /\ fmt /= "image" THEN t_ct + 1 ELSE t_ct
                   /\ landing_pages' = landing_entries(landing_pages, doc_id, filtered_urls)
                   /\ landing_pages2' = landing_flat(landing_pages2, filtered_urls)
                   /\ ids' = accumulate_ids(ids, key_ids_value)
                   /\ impressions' = Append(impressions, <<doc_id, imp_val>>)
                   /\ imp_ct' = add_impression(imp_ct, imp_val)
                   /\ pulled' = Append(pulled, [hit |-> hit, ut |-> ut,
                                                called |-> Extractors])
                   /\ UNCHANGED <<pc, failure>>
    /\ UNCHANGED <<out, start_date, last_date, written>>

(* Line 81: the generator is exhausted *)
Drained ==
    /\ pc = "loop"
    /\ pc' = "sort"
    /\ UNCHANGED <<failure, out, accumulators, start_date, last_date, written, pulled>>

(* Line 161: timestamp_list.sort(...) *)
Sort ==
    /\ pc = "sort"
    /\ LET r == Sorted(timestamp_list)
       IN  IF r.err
           THEN /\ pc' = "aborted"
                /\ failure' = "sort"
                /\ UNCHANGED timestamp_list
           ELSE /\ pc' = "dates"
                /\ timestamp_list' = r.seq
                /\ UNCHANGED failure
    /\ UNCHANGED <<out, doc_count, format_list, landing_pages, landing_pages2, ids,
                   impressions, v_ct, i_ct, t_ct, imp_ct, start_date, last_date,
                   written, pulled>>

(* Lines 164-170 *)
DateRange ==
    /\ pc = "dates"
    /\ start_date' = pick_start_date(timestamp_list)
    /\ last_date' = pick_last_date(timestamp_list)
    /\ pc' = "write"
    /\ UNCHANGED <<failure, out, accumulators, written, pulled>>

(* Lines 196-203: comms.json is written, or the write raises and is reported *)
WriteReport ==
    /\ pc = "write"
    /\ \E raised \in BOOLEAN :
          IF raised
          THEN /\ out' = Append(out, "Error writing comms.json:")
               /\ failure' = "write"
               /\ pc' = "aborted"
               /\ UNCHANGED written
          ELSE /\ written' = TRUE
               /\ pc' = "summary"
               /\ UNCHANGED <<out, failure>>
    /\ UNCHANGED <<accumulators, start_date, last_date, pulled>>

SummaryLines == <<"Processed", "Date range", "Formats", "Landing pages collected",
                  "Impressions (total)">>

(* Lines 205-209 *)
PrintSummary ==
    /\ pc = "summary"
    /\ out' = out \o SummaryLines
    /\ pc' = "done"
    /\ UNCHANGED <<failure, accumulators, start_date, last_date, written, pulled>>

(* main() over the records of the universe hits, at most max of them *)
Main(hits, max) ==
    \/ CreateClient
    \/ Scan
    \/ PullRaises
    \/ \E h \in hits : ProcessRecord(h.source, h.ut, max)
    \/ Drained
    \/ Sort
    \/ DateRange
    \/ WriteReport
    \/ PrintSummary

----------------------------------------------------------------------------
(* The inputs: payloads, extractor outcomes, and the specifications *)

MaxDocs == 3
MaxClassifyDocs == 1
MaxImpDocs == 4

Https == <<"h", "t", "t", "p", "s", ":", "/", "/">>
Http == <<"h", "t", "t", "p", ":", "/", "/">>
IReddIt == <<"i", ".", "r", "e", "d", "d", ".", "i", "t">>

UrlHttps == Str(Https \o IReddIt \o <<"/", "a", "b", "c">>)
UrlHttp == Str(Http \o IReddIt \o <<"/", "x">>)
UrlBare == Str(Https \o IReddIt)
UrlUpper == Str(<<"H", "T", "T", "P", "S", ":", "/", "/">> \o IReddIt \o <<"/", "x">>)
UrlVideoHost == Str(Https \o <<"v", ".", "r", "e", "d", "d", ".", "i", "t", "/", "x">>)
UrlNoDot == Str(Https \o <<"i", "x", "r", "e", "d", "d", ".", "i", "t", "/", "x">>)
UrlLeadingSpace == Str(<<" ">> \o Https \o IReddIt)
UrlCut == Str(Https \o <<"i", ".", "r", "e", "d", "d", ".", "i">>)
UrlDoubleS == Str(<<"h", "t", "t", "p", "s", "s", ":", "/", "/">> \o IReddIt)
UrlInQuery == Str(Https \o <<"x", ".", "y", "/", "?">> \o Https \o IReddIt)

UrlStrings == {EmptyStr, UrlHttps, UrlHttp, UrlBare, UrlUpper, UrlVideoHost, UrlNoDot,
               UrlLeadingSpace, UrlCut, UrlDoubleS, UrlInQuery}

Flags == {Absent, None, Bool(FALSE), Bool(TRUE), Num(0), Num(1)}

(* Payloads of every shape: _source missing, null, empty, a mapping with   *)
(* any of the three fields present or absent, or not a mapping at all      *)
ClassifySources ==
    {Absent, None, EmptyDict, Str(<<"x">>), EmptyStr, Num(0), List(<<Num(1)>>)}
    \cup {MkSource(iv, url, ig) :
             iv \in Flags,
             url \in UrlStrings \cup {Absent, None, Num(0), Num(123), List(<<UrlHttps>>)},
             ig \in {Absent, None, Bool(FALSE), Bool(TRUE)}}

U1 == Str(<<"u", "1">>)
U2 == Str(<<"u", "2">>)
K1 == Str(<<"k", "1">>)
K2 == Str(<<"k", "2">>)

BaseSource == MkSource(Absent, UrlHttps, Absent)
BaseOutcomes == Outcomes(Num(100), List(<<U1, U2>>), K1, Num(10))

Hit(source, ut) == [source |-> source, ut |-> ut]

ClassifyHits == {Hit(s, BaseOutcomes) : s \in ClassifySources}

(* Timestamps vary: missing, failing, equal and distinct values *)
DateHits ==
    {Hit(BaseSource, Outcomes(ts, None, None, None)) :
        ts \in {Raise, None, Num(50), Num(75), Num(100)}}

(* Landing pages vary over the shapes Url | sequence<Url> | null *)
LandingHits ==
    {Hit(BaseSource, Outcomes(None, lp, None, None)) :
        lp \in {Raise, None, EmptyStr, U1, List(<<>>), List(<<U2>>),
                List(<<U1, U2>>), List(<<EmptyStr>>)}}

(* Key ids vary: scalars (falsy ones too), sequences, null, failure *)
KeyIdHits ==
    {Hit(BaseSource, Outcomes(None, None, kid, None)) :
        kid \in {Raise, None, EmptyStr, Num(0), K1, List(<<>>), List(<<K2>>),
                 List(<<K2, K1>>)}}

(* Impressions vary: numbers, numeric and non-numeric strings, empty       *)
(* values, a list, null, failure                                           *)
ImpressionHits ==
    {Hit(BaseSource, Outcomes(None, None, None, imp)) :
        imp \in {Raise, None, Num(10), Num(5), Str(<<"b", "a", "d">>),
                 Str(<<" ", "-", "3", " ">>), EmptyStr, List(<<>>), List(<<Num(7)>>)}}

(* At most one extractor departs from its usual value, or all do; the      *)
(* payload is one of each format, or malformed                             *)
MainOutcomes ==
    {BaseOutcomes, Outcomes(Raise, Raise, Raise, Raise), Outcomes(None, None, None, None)}
    \cup {[BaseOutcomes EXCEPT ![e] = o] : e \in Extractors, o \in {Raise, None}}

MainHits ==
    {Hit(BaseSource, o) : o \in MainOutcomes}
    \cup {Hit(s, BaseOutcomes) :
             s \in {MkSource(Bool(TRUE), UrlHttps, Bool(TRUE)), Absent}}
    \cup {Hit(s, o) :
             s \in {MkSource(Absent, Num(123), Absent), Str(<<"x">>)},
             o \in {BaseOutcomes, Outcomes(Raise, None, None, None)}}

Next == Main(MainHits, MaxDocs)
Spec == Init /\ [][Next]_vars

NextClassify == Main(ClassifyHits, MaxClassifyDocs)
SpecClassify == Init /\ [][NextClassify]_vars

NextDates == Main(DateHits, MaxDocs)
SpecDates == Init /\ [][NextDates]_vars

NextLanding == Main(LandingHits, MaxDocs)
SpecLanding == Init /\ [][NextLanding]_vars

NextKeyIds == Main(KeyIdHits, MaxDocs)
SpecKeyIds == Init /\ [][NextKeyIds]_vars

NextImpressions == Main(ImpressionHits, MaxImpDocs)
SpecImpressions == Init /\ [][NextImpressions]_vars

----------------------------------------------------------------------------
(* What the stream asks for: the records pulled so far, and what each      *)
(* extractor call came to                                                  *)

(* The value an extractor call leaves for record r: null when it raised *)
Extracted(r, e) == IF r.ut[e] = Raise THEN None ELSE r.ut[e]

Returned(r, e) == e \in r.called /\ r.ut[e] /= Raise

RaisedOnly(r, e) ==
    /\ r.called = Extractors
    /\ \A f \in Extractors : (r.ut[f] = Raise) <=> (f = e)

IsEmptyValue(val) == val = None \/ val = EmptyStr \/ val = List(<<>>)

(* The items a scalar-or-sequence value contributes to a flat list *)
Items(val) == IF val.k = "list" THEN val.v ELSE <<val>>

HasLanding(r) == Returned(r, "landing_pages") /\ ~IsEmptyValue(r.ut.landing_pages)

LandingEntryOf(n, val) == IF IsEmptyValue(val) THEN <<>> ELSE <<<<Num(n), val>>>>
LandingItemsOf(val) == IF IsEmptyValue(val) THEN <<>> ELSE Items(val)
KeyIdItemsOf(val) == IF val = None THEN <<>> ELSE Items(val)

RECURSIVE ExpectedLandingEntries(_)
ExpectedLandingEntries(n) ==
    IF n = 0 THEN <<>>
    ELSE ExpectedLandingEntries(n - 1)
         \o (IF HasLanding(pulled[n]) THEN <<<<Num(n), pulled[n].ut.landing_pages>>>>
             ELSE <<>>)

RECURSIVE ExpectedLandingFlat(_)
ExpectedLandingFlat(n) ==
    IF n = 0 THEN <<>>
    ELSE ExpectedLandingFlat(n - 1)
         \o (IF HasLanding(pulled[n]) THEN Items(pulled[n].ut.landing_pages) ELSE <<>>)

RECURSIVE ItemCount(_)
ItemCount(entries) ==
    IF entries = <<>> THEN 0
    ELSE ItemCount(Tail(entries))
         + (IF Head(entries)[2].k = "list" THEN Len(Head(entries)[2].v) ELSE 1)

RECURSIVE ExpectedKeyIds(_)
ExpectedKeyIds(n) ==
    IF n = 0 THEN <<>>
    ELSE ExpectedKeyIds(n - 1)
         \o (IF Returned(pulled[n], "key_ids") THEN KeyIdItemsOf(pulled[n].ut.key_ids)
             ELSE <<>>)

(* What one extracted impression is worth: its number; 1 when it is no     *)
(* number but truthy; nothing when null or empty                           *)
ImpressionWorth(val) ==
    IF val = None THEN 0
    ELSE IF Float(val).ok THEN Float(val).v
    ELSE IF Truthy(val) THEN 1 ELSE 0

(* The same with 1 for every non-null value that is no number *)
ImpressionWorthAnyNonNull(val) ==
    IF val = None THEN 0
    ELSE IF Float(val).ok THEN Float(val).v
    ELSE 1

(* The step just taken processed a record: r is that record, n its number *)
Processed == Len(pulled') = Len(pulled) + 1
NewRecord == pulled'[Len(pulled')]

Ended == pc \in {"done", "aborted"}
AtRecordBoundary == pc = "loop"

----------------------------------------------------------------------------
(* C1: after each record has been processed and at the end of the run, the *)
(* three format counts add up to doc_count, which is the length of         *)
(* format_list, of timestamp_list and of impressions.                      *)
C1_CountsAgree ==
    (AtRecordBoundary \/ Ended) =>
        /\ v_ct + i_ct + t_ct = doc_count
        /\ doc_count = Len(format_list)
        /\ doc_count = Len(timestamp_list)
        /\ doc_count = Len(impressions)

(* C2: a record on which exactly one extractor raises, the other three     *)
(* returning, does not abort the run; doc_count is incremented, the        *)
(* failing field is stored as null for that record, every field is         *)
(* accumulated as if the failing extractor had returned null, behind what  *)
(* the earlier records left, and the loop goes on to the next record.      *)
C2_RaisingExtractorIsolated ==
    [][\A e \in Extractors :
          (Processed /\ RaisedOnly(NewRecord, e)) =>
              LET r == NewRecord
                  n == Len(pulled')
                  lp == Extracted(r, "landing_pages")
                  kid == Extracted(r, "key_ids")
                  imp == Extracted(r, "impressions")
              IN  /\ Extracted(r, e) = None
                  /\ pc' = "loop"
                  /\ failure' = "none"
                  /\ doc_count' = doc_count + 1
                  /\ timestamp_list' =
                        Append(timestamp_list, <<Num(n), Extracted(r, "timestamp")>>)
                  /\ Len(format_list') = Len(format_list) + 1
                  /\ v_ct' + i_ct' + t_ct' = v_ct + i_ct + t_ct + 1
                  /\ landing_pages' = landing_pages \o LandingEntryOf(n, lp)
                  /\ landing_pages2' = landing_pages2 \o LandingItemsOf(lp)
                  /\ ids' = ids \o KeyIdItemsOf(kid)
                  /\ impressions' = Append(impressions, <<Num(n), imp>>)
                  /\ imp_ct' = imp_ct + ImpressionWorth(imp)
      ]_vars

C2_Witness ==
    /\ pc = "done"
    /\ Len(pulled) = 3
    /\ RaisedOnly(pulled[1], "timestamp")
    /\ RaisedOnly(pulled[2], "impressions")
    /\ RaisedOnly(pulled[3], "key_ids")
    /\ doc_count = 3
    /\ ids = <<K1, K1>>

(* C3, as stated: each record moves the impressions total by the number    *)
(* its impression coerces to, by 1 when the impression is non-null and     *)
(* does not coerce (empty string and empty list included), by 0 when null. *)
C3_OneForEveryNonNumber ==
    [][IF Processed /\ "impressions" \in NewRecord.called
       THEN imp_ct' = imp_ct
                + ImpressionWorthAnyNonNull(Extracted(NewRecord, "impressions"))
       ELSE imp_ct' = imp_ct
      ]_vars

(* C3, amended: each record moves the impressions total by the number its  *)
(* impression coerces to, by 1 when the impression does not coerce and is  *)
(* truthy, by 0 when it is null or an empty value that does not coerce.    *)
C3_OneForTruthyNonNumber ==
    [][IF Processed /\ "impressions" \in NewRecord.called
       THEN imp_ct' = imp_ct + ImpressionWorth(Extracted(NewRecord, "impressions"))
       ELSE imp_ct' = imp_ct
      ]_vars

(* impressions 10, "bad", null, 5 over four records: a total of 16 *)
C3_Witness ==
    /\ pc = "done"
    /\ Len(pulled) = 4
    /\ pulled[1].ut.impressions = Num(10)
    /\ pulled[2].ut.impressions = Str(<<"b", "a", "d">>)
    /\ pulled[3].ut.impressions = None
    /\ pulled[4].ut.impressions = Num(5)
    /\ imp_ct = 16

(* The payload of a record, as the classifier is meant to read it *)
SourceOf(hit) == IF "_source" \in DOMAIN hit.v THEN hit.v["_source"] ELSE None
FieldOf(hit, key) ==
    IF SourceOf(hit).k = "dict" /\ key \in DOMAIN SourceOf(hit).v
    THEN SourceOf(hit).v[key] ELSE None

(* A mapping (or none), whose url, when present, is a string or null *)
WellFormed(hit) ==
    /\ SourceOf(hit).k \in {"dict", "none"}
    /\ FieldOf(hit, "url").k \in {"str", "none"}

IsPrefix(p, s) == Len(p) <= Len(s) /\ SubSeq(s, 1, Len(p)) = p

HasImageUrl(hit) ==
    /\ FieldOf(hit, "url").k = "str"
    /\ \/ IsPrefix(Http \o IReddIt, FieldOf(hit, "url").v)
       \/ IsPrefix(Https \o IReddIt, FieldOf(hit, "url").v)

ExpectedFormat(hit) ==
    IF Truthy(FieldOf(hit, "is_video")) THEN "video"
    ELSE IF HasImageUrl(hit) \/ Truthy(FieldOf(hit, "is_gallery")) THEN "image"
    ELSE "text"

(* C4: detect_format never raises: every record pulled, whatever its       *)
(* payload, is given one of video, image, text, and no payload aborts the  *)
(* loop.                                                                   *)
C4_ClassifierTotal ==
    /\ failure /= "classify"
    /\ \A n \in DOMAIN pulled :
          /\ detect_format(pulled[n].hit) \in Formats
          /\ n \in DOMAIN format_list
          /\ format_list[n][2] \in Formats

(* C5: a well-formed payload is video when is_video is set, whatever its   *)
(* url and is_gallery; else image when its url starts with                 *)
(* http://i.redd.it or https://i.redd.it or is_gallery is set; else text.  *)
C5_FirstMatchWins ==
    \A n \in DOMAIN pulled :
        WellFormed(pulled[n].hit) =>
            /\ n \in DOMAIN format_list
            /\ format_list[n] = <<Num(n), ExpectedFormat(pulled[n].hit)>>

C5_Witness ==
    /\ Len(pulled) = 1
    /\ Truthy(FieldOf(pulled[1].hit, "is_video"))
    /\ HasImageUrl(pulled[1].hit)
    /\ Truthy(FieldOf(pulled[1].hit, "is_gallery"))
    /\ format_list = <<<<Num(1), "video">>>>
    /\ v_ct = 1

IsNullEntry(entry) == entry[2] = None

(* post is pre rearranged by f, equal timestamps keeping their order *)
StablyRearranged(pre, post) ==
    /\ Len(post) = Len(pre)
    /\ \E f \in [DOMAIN pre -> DOMAIN pre] :
          /\ \A a, b \in DOMAIN pre : a /= b => f[a] /= f[b]
          /\ \A a \in DOMAIN pre : post[f[a]] = pre[a]
          /\ \A a, b \in DOMAIN pre : (a < b /\ pre[a][2] = pre[b][2]) => f[a] < f[b]

NullsLastAscending(post) ==
    \A a, b \in DOMAIN post :
        a < b => /\ IsNullEntry(post[a]) => IsNullEntry(post[b])
                 /\ (~IsNullEntry(post[a]) /\ ~IsNullEntry(post[b]))
                       => post[a][2].v <= post[b][2].v

(* C6: the sort does not fail, and leaves timestamp_list a rearrangement   *)
(* of what it was, null timestamps behind all others, the others in        *)
(* ascending order, equal timestamps (null ones too) in their stream order.*)
C6_SortNullsLastStable ==
    [][pc = "sort" =>
          /\ pc' = "dates"
          /\ StablyRearranged(timestamp_list, timestamp_list')
          /\ NullsLastAscending(timestamp_list')
      ]_vars

C6_Witness ==
    /\ pc = "dates"
    /\ Len(pulled) = 3
    /\ Extracted(pulled[1], "timestamp") = None
    /\ Extracted(pulled[2], "timestamp") = None
    /\ timestamp_list = <<<<Num(3), Num(50)>>, <<Num(1), None>>, <<Num(2), None>>>>

StreamEntry(n) == <<Num(n), Extracted(pulled[n], "timestamp")>>
Dated == {n \in DOMAIN pulled : Extracted(pulled[n], "timestamp") /= None}
StampOf(n) == pulled[n].ut.timestamp.v

(* The record with the greatest timestamp, the latest of them in the stream *)
Latest == CHOOSE n \in Dated :
            \A m \in Dated : StampOf(m) < StampOf(n) \/ (StampOf(m) = StampOf(n) /\ m <= n)

DatesChosen == pc \in {"write", "summary", "done"} \/ (pc = "aborted" /\ failure = "write")

(* C7: start_date is the first entry of the sorted list; last_date is the  *)
(* entry with the greatest timestamp, the latest in the stream among       *)
(* equals, or the last entry of the list when every timestamp is null;     *)
(* both are the no-data value on an empty stream.  Records (1, 100),       *)
(* (2, 50), (3, null) give (2, 50) and (1, 100).                           *)
C7_DateRange ==
    DatesChosen =>
        /\ pulled = <<>> => (start_date = NoDate /\ last_date = NoDate)
        /\ pulled /= <<>> =>
              /\ start_date = timestamp_list[1]
              /\ Dated /= {} => last_date = StreamEntry(Latest)
              /\ Dated = {} => last_date = timestamp_list[Len(timestamp_list)]
        /\ (/\ Len(pulled) = 3
            /\ StreamEntry(1) = <<Num(1), Num(100)>>
            /\ StreamEntry(2) = <<Num(2), Num(50)>>
            /\ StreamEntry(3) = <<Num(3), None>>)
              => (start_date = <<Num(2), Num(50)>> /\ last_date = <<Num(1), Num(100)>>)

C7_Witness ==
    /\ pc = "done"
    /\ Len(pulled) = 3
    /\ pulled[1].ut.timestamp = Num(100)
    /\ pulled[2].ut.timestamp = Num(50)
    /\ pulled[3].ut.timestamp = None
    /\ start_date = <<Num(2), Num(50)>>
    /\ last_date = <<Num(1), Num(100)>>

ErrorLines == {"Error creating Elasticsearch client:",
               "Error scanning Elasticsearch index:", "Error writing comms.json:"}

(* C8: when creating the client, establishing the scan (also when it fails *)
(* on the first pull) or writing the report fails, an error message is     *)
(* printed before the exception leaves main, and no summary line is.       *)
C8_FatalFailuresReported ==
    (pc = "aborted" /\ failure \in {"client", "scan", "first_pull", "write"}) =>
        /\ \E m \in DOMAIN out : out[m] \in ErrorLines
        /\ \A m \in DOMAIN out : out[m] \notin {SummaryLines[x] : x \in DOMAIN SummaryLines}

(* C9: landing_pages holds one [id, value] entry, in stream order, for     *)
(* each record whose landing-pages call returned a non-empty value and for *)
(* no other; landing_pages2 is the concatenation of the items of those     *)
(* values, so its length is the sum of 1 per scalar and the item count     *)
(* per sequence.                                                           *)
C9_LandingPages ==
    /\ landing_pages = ExpectedLandingEntries(Len(pulled))
    /\ landing_pages2 = ExpectedLandingFlat(Len(pulled))
    /\ Len(landing_pages2) = ItemCount(landing_pages)

C9_Witness ==
    /\ Len(pulled) = 3
    /\ pulled[1].ut.landing_pages = List(<<U1, U2>>)
    /\ pulled[2].ut.landing_pages = EmptyStr
    /\ pulled[3].ut.landing_pages = U1
    /\ landing_pages = <<<<Num(1), List(<<U1, U2>>)>>, <<Num(3), U1>>>>
    /\ landing_pages2 = <<U1, U2, U1>>

(* C10: ids is the concatenation, in stream order, of what each record's   *)
(* key-ids call contributes: nothing for null or an exception, its items   *)
(* for a sequence, itself for any other value (empty string and 0 too).    *)
C10_KeyIds == ids = ExpectedKeyIds(Len(pulled))

C10_Witness ==
    /\ Len(pulled) = 3
    /\ pulled[1].ut.key_ids = EmptyStr
    /\ pulled[2].ut.key_ids = List(<<K2, K1>>)
    /\ pulled[3].ut.key_ids = Num(0)
    /\ ids = <<EmptyStr, K2, K1, Num(0)>>
====
